---- MODULE Spec2Model ----
(***************************************************************************)
(* Model of generate_ico.py: main() reads the PNG files of phraims.iconset, *)
(* synthesizes a 48x48 image from the 256x256 one, and saves everything as  *)
(* resources/phraims.ico.  The state is the file system the script observes *)
(* (os.path.isdir / os.path.exists), the locals of main(), the two output   *)
(* streams and the exit status.  One action per statement group of main().  *)
(***************************************************************************)
EXTENDS Integers, Sequences, FiniteSets, TLC

(* ---------------------------------------------------------------- bounds *)
\* number of consecutive runs of the script on the same file system
MaxRuns == 2
\* off-nominal image dimensions: a source file may hold 24k x 96 pixels, k in 1..MaxSide
MaxSide == 1
\* number of files in the iconset directory that are not in png_files
MaxUnrelated == 1

(* ------------------------------------------------------ program constants *)
output_ico == "resources/phraims.ico"

png_files ==
  << "icon_16x16.png", "icon_32x32.png", "icon_32x32@2x.png",
     "icon_128x128.png", "icon_256x256.png" >>

icon_256 == "icon_256x256.png"
icon_32 == "icon_32x32.png"
icon_16 == "icon_16x16.png"

\* index handed to images.insert for the synthesized image
InsertIndex == 2
\* side of the synthesized image, img_256.resize((48, 48), resample)
Size48 == 48

Expected == { png_files[k] : k \in 1..Len(png_files) }

(* ------------------------------------------------------------ environment *)
\* pixel dimensions a well-formed iconset gives each expected file
Nominal(f) ==
  CASE f = "icon_16x16.png" -> <<16, 16>>
    [] f = "icon_32x32.png" -> <<32, 32>>
    [] f = "icon_32x32@2x.png" -> <<64, 64>>
    [] f = "icon_128x128.png" -> <<128, 128>>
    [] OTHER -> <<256, 256>>

\* dimensions a file may hold instead (Image.open reports what the file holds)
OffNominal == { <<24 * k, 96>> : k \in 1..MaxSide }

\* files of the iconset directory that png_files does not name
UnrelatedName(k) ==
  IF k = 1 THEN "README.txt"
  ELSE IF k = 2 THEN "icon_512x512.png"
  ELSE "icon_16x16@2x.png"

UnrelatedNames == { UnrelatedName(k) : k \in 1..MaxUnrelated }

(* ------------------------------------------------------------------ files *)
NoFile == [exists |-> FALSE, frames |-> <<>>, sizes |-> <<>>]

\* an .ico left by something else before the first run
OldIco ==
  [exists |-> TRUE,
   frames |-> << [name |-> "previous", size |-> <<1, 1>>] >>,
   sizes |-> <<>>]

\* a file opened for writing and closed before anything useful was written
Truncated == [exists |-> TRUE, frames |-> <<>>, sizes |-> <<>>]

NotEncoded ==
  [called |-> FALSE, primary |-> <<>>, sizes |-> <<>>,
   append_images |-> <<>>, append_none |-> FALSE]

NoPrev ==
  [exitCode |-> -1, encoded |-> NotEncoded, output |-> NoFile,
   saveResult |-> "none", images |-> <<>>]

VARIABLES
  dirExists,   \* os.path.isdir(iconset_dir)
  files,       \* names present in iconset_dir
  dims,        \* pixel dimensions of each expected file
  resDir,      \* the directory "resources" exists
  output,      \* the file output_ico
  pc,          \* position in main()
  i,           \* index of the for loop over png_files (1-based)
  images,      \* the list images
  opened,      \* paths handed to Image.open, in order
  stdout,      \* lines printed to standard output
  stderr,      \* lines printed to standard error
  exitCode,    \* exit status of the process, -1 while running
  encoded,     \* the arguments of the save call
  saveResult,  \* how the save call ended
  run,         \* number of the current run
  prev,        \* what the previous run ended with
  resDir0,     \* resDir when the current run started
  out0         \* output when the current run started

fsvars == <<dirExists, files, dims>>
outvars == <<resDir, output>>
histvars == <<run, prev, resDir0, out0>>
vars ==
  <<dirExists, files, dims, resDir, output, pc, i, images, opened, stdout,
    stderr, exitCode, encoded, saveResult, run, prev, resDir0, out0>>

(* ---------------------------------------------------------------- helpers *)
Msg(kind, text) == <<kind, text>>

Area(img) == img.size[1] * img.size[2]

\* a test for a non-empty directory instead of the one file
PathExistsAnyFile(name) == dirExists /\ files # {}

\* os.path.exists(os.path.join(iconset_dir, name))
PathExists(name) == dirExists /\ name \in files

\* Image.open(png_path): a handle with the size the file holds
ImageOpen(name) == [name |-> name, size |-> dims[name]]

\* img_256.resize((48, 48), resample)
Resize48(img) == [name |-> "resized_48x48", size |-> <<Size48, Size48>>]

img_48 == Resize48(ImageOpen(icon_256))

\* s[idx] = x instead of s.insert(idx, x)
ListInsertReplace(s, idx, x) ==
  IF idx >= Len(s) THEN s \o <<x>>
  ELSE [k \in 1..Len(s) |-> IF k = idx + 1 THEN x ELSE s[k]]

\* list.insert(idx, x): x lands before position idx (0-based), or at the end
\* when the list is shorter
ListInsert(s, idx, x) ==
  IF idx >= Len(s) THEN s \o <<x>>
  ELSE SubSeq(s, 1, idx) \o <<x>> \o SubSeq(s, idx + 1, Len(s))

\* place x in a list sorted by area descending, behind every element whose
\* area is at least its own (keeps equal keys in their original order)
RECURSIVE PlaceDesc(_, _)
PlaceDesc(t, x) ==
  IF t = <<>> THEN <<x>>
  ELSE IF Area(Head(t)) >= Area(x) THEN <<Head(t)>> \o PlaceDesc(Tail(t), x)
  ELSE <<x>> \o t

RECURSIVE SortFrom(_, _)
SortFrom(done, rest) ==
  IF rest = <<>> THEN done
  ELSE SortFrom(PlaceDesc(done, Head(rest)), Tail(rest))

\* sorted(images, key=area) without reverse=True
RECURSIVE PlaceAsc(_, _)
PlaceAsc(t, x) ==
  IF t = <<>> THEN <<x>>
  ELSE IF Area(Head(t)) <= Area(x) THEN <<Head(t)>> \o PlaceAsc(Tail(t), x)
  ELSE <<x>> \o t

RECURSIVE SortFromAsc(_, _)
SortFromAsc(done, rest) ==
  IF rest = <<>> THEN done
  ELSE SortFromAsc(PlaceAsc(done, Head(rest)), Tail(rest))

SortedAscending(s) == SortFromAsc(<<>>, s)

\* sorted(images, key=lambda img: img.size[0] * img.size[1], reverse=True)
SortedByAreaDesc(s) == SortFrom(<<>>, s)

\* [(img.size[0], img.size[1]) for img in images]
SizesOf(s) == [k \in 1..Len(s) |-> s[k].size]

\* os.makedirs without regard for exist_ok
MakedirsRaisesStrict(exists, exist_ok) == exists

\* os.makedirs(path, exist_ok=...) raises FileExistsError on an existing
\* directory unless exist_ok is set
MakedirsRaises(exists, exist_ok) == exists /\ ~exist_ok

\* How images_sorted[0].save(...) can end.  The script itself tells a written
\* file from a missing one (os.path.exists(output_ico) afterwards).  With a
\* single image it passes append_images=None: an ICO encoder that builds
\* [im] + append_images rejects that with TypeError, one that ignores the
\* argument does not.
SaveOutcomes(append_none) ==
  IF append_none THEN {"written", "missing", "raised"}
  ELSE {"written", "missing"}

\* the file the encoder leaves at output_ico
Written(enc) ==
  [exists |-> TRUE, frames |-> enc.primary \o enc.append_images,
   sizes |-> enc.sizes]

\* an uncaught exception: traceback on standard error, exit status 1
Uncaught(what) ==
  /\ stderr' = Append(stderr, Msg("Traceback", what))
  /\ exitCode' = 1
  /\ pc' = "done"

(* ------------------------------------------------------------------- Init *)
InitFiles ==
  \/ /\ dirExists = FALSE
     /\ files = {}
  \/ /\ dirExists = TRUE
     /\ \E present \in SUBSET Expected, other \in SUBSET UnrelatedNames :
          files = present \cup other

InitDims ==
  dims \in { d \in [Expected -> { Nominal(f) : f \in Expected } \cup OffNominal] :
               \A f \in Expected :
                 /\ d[f] \in {Nominal(f)} \cup OffNominal
                 /\ f \notin files => d[f] = Nominal(f) }

Init ==
  /\ InitFiles
  /\ InitDims
  /\ \/ resDir = FALSE /\ output = NoFile
     \/ resDir = TRUE /\ output \in {NoFile, OldIco}
  /\ pc = "start"
  /\ i = 1
  /\ images = <<>>
  /\ opened = <<>>
  /\ stdout = <<>>
  /\ stderr = <<>>
  /\ exitCode = -1
  /\ encoded = NotEncoded
  /\ saveResult = "none"
  /\ run = 1
  /\ prev = NoPrev
  /\ resDir0 = resDir
  /\ out0 = output

(* ---------------------------------------------------------------- actions *)
\* lines 17-19 without the sys.exit(1) of line 19
IconsetDirMissingNoExit ==
  /\ pc = "start"
  /\ ~dirExists
  /\ stderr' = Append(stderr, Msg("Error", "phraims.iconset directory not found"))
  /\ pc' = "loop"
  /\ i' = 1
  /\ images' = <<>>
  /\ UNCHANGED <<fsvars, outvars, histvars, opened, stdout, exitCode,
                 encoded, saveResult>>

\* lines 17-19: the iconset directory is missing
IconsetDirMissing ==
  /\ pc = "start"
  /\ ~dirExists
  /\ stderr' = Append(stderr, Msg("Error", "phraims.iconset directory not found"))
  /\ exitCode' = 1
  /\ pc' = "done"
  /\ UNCHANGED <<fsvars, outvars, histvars, i, images, opened, stdout,
                 encoded, saveResult>>

\* line 17 passes: go on to the loop of line 34
IconsetDirFound ==
  /\ pc = "start"
  /\ dirExists
  /\ pc' = "loop"
  /\ i' = 1
  /\ images' = <<>>
  /\ UNCHANGED <<fsvars, outvars, histvars, opened, stdout, stderr,
                 exitCode, encoded, saveResult>>

\* lines 36-39: the file is there, open it and append it
LoopAdd ==
  /\ pc = "loop"
  /\ i <= Len(png_files)
  /\ PathExists(png_files[i])
  /\ opened' = Append(opened, png_files[i])
  /\ images' = Append(images, ImageOpen(png_files[i]))
  /\ stdout' = Append(stdout, Msg("Added", png_files[i]))
  /\ i' = i + 1
  /\ UNCHANGED <<fsvars, outvars, histvars, pc, stderr, exitCode, encoded,
                 saveResult>>

\* lines 40-41 leaving the loop at the first missing file
LoopWarnBreak ==
  /\ pc = "loop"
  /\ i <= Len(png_files)
  /\ ~PathExists(png_files[i])
  /\ stderr' = Append(stderr, Msg("Warning", png_files[i]))
  /\ i' = Len(png_files) + 1
  /\ UNCHANGED <<fsvars, outvars, histvars, pc, images, opened, stdout,
                 exitCode, encoded, saveResult>>

\* lines 40-41: the file is not there, warn and go on
LoopWarn ==
  /\ pc = "loop"
  /\ i <= Len(png_files)
  /\ ~PathExists(png_files[i])
  /\ stderr' = Append(stderr, Msg("Warning", png_files[i]))
  /\ i' = i + 1
  /\ UNCHANGED <<fsvars, outvars, histvars, pc, images, opened, stdout,
                 exitCode, encoded, saveResult>>

\* the for loop of line 34 is exhausted
LoopEnd ==
  /\ pc = "loop"
  /\ i > Len(png_files)
  /\ pc' = "gen48"
  /\ UNCHANGED <<fsvars, outvars, histvars, i, images, opened, stdout,
                 stderr, exitCode, encoded, saveResult>>

\* lines 44-55: icon_256x256.png is there, resize it and insert the result
Generate48 ==
  /\ pc = "gen48"
  /\ PathExists(icon_256)
  /\ opened' = Append(opened, icon_256)
  /\ images' = ListInsert(images, InsertIndex, img_48)
  /\ stdout' = Append(stdout, Msg("Generated", "48x48 from 256x256"))
  /\ pc' = "check"
  /\ UNCHANGED <<fsvars, outvars, histvars, i, stderr, exitCode, encoded,
                 saveResult>>

\* line 45 fails: nothing is synthesized
Skip48 ==
  /\ pc = "gen48"
  /\ ~PathExists(icon_256)
  /\ pc' = "check"
  /\ UNCHANGED <<fsvars, outvars, histvars, i, images, opened, stdout,
                 stderr, exitCode, encoded, saveResult>>

\* lines 57-59 with the os.makedirs of line 62 ahead of them
NoImagesAfterMakedirs ==
  /\ pc = "check"
  /\ images = <<>>
  /\ resDir' = TRUE
  /\ stderr' = Append(stderr, Msg("Error", "No PNG images found to convert"))
  /\ exitCode' = 1
  /\ pc' = "done"
  /\ UNCHANGED <<fsvars, histvars, output, i, images, opened, stdout,
                 encoded, saveResult>>

\* lines 57-59: nothing was collected
NoImages ==
  /\ pc = "check"
  /\ images = <<>>
  /\ stderr' = Append(stderr, Msg("Error", "No PNG images found to convert"))
  /\ exitCode' = 1
  /\ pc' = "done"
  /\ UNCHANGED <<fsvars, outvars, histvars, i, images, opened, stdout,
                 encoded, saveResult>>

\* line 57 passes
HaveImages ==
  /\ pc = "check"
  /\ images # <<>>
  /\ pc' = "mkdir"
  /\ UNCHANGED <<fsvars, outvars, histvars, i, images, opened, stdout,
                 stderr, exitCode, encoded, saveResult>>

\* line 62: os.makedirs("resources", exist_ok=True)
Makedirs ==
  /\ pc = "mkdir"
  /\ IF MakedirsRaises(resDir, TRUE)
     THEN /\ Uncaught("FileExistsError")
          /\ UNCHANGED resDir
     ELSE /\ resDir' = TRUE
          /\ pc' = "save"
          /\ UNCHANGED <<stderr, exitCode>>
  /\ UNCHANGED <<fsvars, histvars, output, i, images, opened, stdout,
                 encoded, saveResult>>

\* lines 66-77: the arguments of the save call
SaveArgs ==
  LET images_sorted == SortedByAreaDesc(images)
  IN [called |-> TRUE,
      primary |-> <<Head(images_sorted)>>,
      sizes |-> SizesOf(images),
      append_images |-> IF Len(images_sorted) > 1 THEN Tail(images_sorted) ELSE <<>>,
      append_none |-> ~(Len(images_sorted) > 1)]

\* lines 72-77: the save call returns and the file is there
SaveWritten ==
  /\ pc = "save"
  /\ "written" \in SaveOutcomes(SaveArgs.append_none)
  /\ encoded' = SaveArgs
  /\ saveResult' = "written"
  /\ output' = Written(SaveArgs)
  /\ pc' = "verify"
  /\ UNCHANGED <<fsvars, histvars, resDir, i, images, opened, stdout,
                 stderr, exitCode>>

\* lines 72-77: the save call returns and no file is there
SaveMissing ==
  /\ pc = "save"
  /\ "missing" \in SaveOutcomes(SaveArgs.append_none)
  /\ encoded' = SaveArgs
  /\ saveResult' = "missing"
  /\ output' = NoFile
  /\ pc' = "verify"
  /\ UNCHANGED <<fsvars, histvars, resDir, i, images, opened, stdout,
                 stderr, exitCode>>

\* lines 72-77: the encoder rejects append_images=None.  It had opened
\* output_ico for writing: a file that was there is left truncated, a file
\* it created is removed again.
SaveRaised ==
  /\ pc = "save"
  /\ "raised" \in SaveOutcomes(SaveArgs.append_none)
  /\ encoded' = SaveArgs
  /\ saveResult' = "raised"
  /\ output' = IF output.exists THEN Truncated ELSE NoFile
  /\ Uncaught("TypeError")
  /\ UNCHANGED <<fsvars, histvars, resDir, i, images, opened, stdout>>

\* lines 80-83: the output file is there
VerifyCreated ==
  /\ pc = "verify"
  /\ output.exists
  /\ stdout' = stdout \o << Msg("Successfully created", output_ico),
                            Msg("Size", output_ico) >>
  /\ exitCode' = 0
  /\ pc' = "done"
  /\ UNCHANGED <<fsvars, outvars, histvars, i, images, opened, stderr,
                 encoded, saveResult>>

\* lines 84-86: the output file is not there
VerifyFailed ==
  /\ pc = "verify"
  /\ ~output.exists
  /\ stderr' = Append(stderr, Msg("Error", "Failed to create resources/phraims.ico"))
  /\ exitCode' = 1
  /\ pc' = "done"
  /\ UNCHANGED <<fsvars, outvars, histvars, i, images, opened, stdout,
                 encoded, saveResult>>

\* the script is started again on the file system the last run left
Rerun ==
  /\ pc = "done"
  /\ run < MaxRuns
  /\ run' = run + 1
  /\ prev' = [exitCode |-> exitCode, encoded |-> encoded, output |-> output,
              saveResult |-> saveResult, images |-> images]
  /\ resDir0' = resDir
  /\ out0' = output
  /\ pc' = "start"
  /\ i' = 1
  /\ images' = <<>>
  /\ opened' = <<>>
  /\ stdout' = <<>>
  /\ stderr' = <<>>
  /\ exitCode' = -1
  /\ encoded' = NotEncoded
  /\ saveResult' = "none"
  /\ UNCHANGED <<fsvars, outvars>>

Next ==
  \/ IconsetDirMissing
  \/ IconsetDirFound
  \/ LoopAdd
  \/ LoopWarn
  \/ LoopEnd
  \/ Generate48
  \/ Skip48
  \/ NoImages
  \/ HaveImages
  \/ Makedirs
  \/ SaveWritten
  \/ SaveMissing
  \/ SaveRaised
  \/ VerifyCreated
  \/ VerifyFailed
  \/ Rerun

Spec == Init /\ [][Next]_vars

(* ------------------------------------------------- vocabulary of the claims *)
Present == files \cap Expected

\* images handed to the encoder: the primary one plus append_images
Frames(enc) == enc.primary \o enc.append_images

IsSynth(img) == img.name = "resized_48x48"
IsOriginal(img) == ~IsSynth(img)
IsWarning(m) == m[1] = "Warning"
IsPresentName(f) == f \in files
IsAbsentName(f) == f \notin files

NamesOf(s) == [k \in 1..Len(s) |-> s[k].name]
TextsOf(s) == [k \in 1..Len(s) |-> s[k][2]]
Count(s, x) == Cardinality({ k \in 1..Len(s) : s[k] = x })

HasSynth(s) == \E k \in 1..Len(s) : IsSynth(s[k])

\* the positions of main() behind the insertion of lines 43-55
Past48 == pc \in {"check", "mkdir", "save", "verify", "done"}

ExpectedCount == Cardinality(Present) + (IF icon_256 \in files THEN 1 ELSE 0)

EncoderCount ==
  encoded.called =>
    /\ Len(Frames(encoded)) = ExpectedCount
    /\ Len(encoded.sizes) = ExpectedCount
    /\ HasSynth(Frames(encoded)) <=> icon_256 \in files
    /\ Count(encoded.sizes, <<Size48, Size48>>) >= (IF icon_256 \in files THEN 1 ELSE 0)

(* ----------------------------------------------------------------- claims *)

\* C1 as written: the encoder receives one image per expected file that is
\* present plus one synthesized 48x48 image exactly when icon_256x256.png is
\* present, and with all five files present the run hands over six images and
\* exits 0.
C1_AsWritten ==
  dirExists =>
    /\ EncoderCount
    /\ (pc = "done" /\ Expected \subseteq files) =>
         (Len(Frames(encoded)) = 6 /\ exitCode = 0)

\* C1 amended: the same count, and with all five files present the run hands
\* six images to the encoder and exits 0 exactly when the output file is there
\* after the save call (exit 1 otherwise).
C1_EncoderCount ==
  dirExists =>
    /\ EncoderCount
    /\ (pc = "done" /\ Expected \subseteq files) =>
         /\ Len(Frames(encoded)) = 6
         /\ exitCode \in {0, 1}
         /\ exitCode = 0 <=> output.exists

C1_Witness ==
  /\ pc = "done"
  /\ Expected \subseteq files
  /\ exitCode = 0
  /\ Len(Frames(encoded)) = 6
  /\ HasSynth(Frames(encoded))

\* C2: without icon_256x256.png no 48x48 image is ever added to images, and
\* the run ends with exit 0 and the output file written for every non-empty
\* set of the other four files (granted here: whenever the save call returns,
\* the file is there).
C2_No256StillSucceeds ==
  (dirExists /\ icon_256 \notin files) =>
    /\ ~HasSynth(images)
    /\ (pc = "done" /\ Present # {} /\ saveResult # "missing") =>
         (exitCode = 0 /\ output.exists /\ output = Written(encoded))

\* C3: with the iconset directory missing the run ends at once with exit 1 and
\* one error line on standard error; no source file is opened, the resources
\* directory is not created and the output file is not touched.
C3_MissingDirExits ==
  ~dirExists =>
    /\ pc \in {"start", "done"}
    /\ opened = <<>>
    /\ images = <<>>
    /\ ~encoded.called
    /\ resDir = resDir0
    /\ output = out0
    /\ pc = "done" =>
         /\ exitCode = 1
         /\ stderr = << Msg("Error", "phraims.iconset directory not found") >>
         /\ stdout = <<>>

C3_Witness ==
  /\ ~dirExists
  /\ pc = "done"
  /\ exitCode = 1
  /\ Len(stderr) = 1

\* C4: with the iconset directory there and none of the five expected names in
\* it, the run ends with exit 1 and an error on standard error, whatever else
\* the directory holds.
C4_NoMatchingFilesExits ==
  (dirExists /\ Present = {} /\ pc = "done") =>
    /\ exitCode = 1
    /\ images = <<>>
    /\ opened = <<>>
    /\ stderr # <<>>
    /\ stderr[Len(stderr)] = Msg("Error", "No PNG images found to convert")

C4_Witness ==
  /\ dirExists
  /\ Present = {}
  /\ files # {}
  /\ pc = "done"
  /\ exitCode = 1

\* C5: every run ends with exit 0 or 1, and with 1 exactly when the iconset
\* directory is missing, no image was collected, or the output file is not
\* there after the save attempt.
C5_ExitCodeIffFatal ==
  pc = "done" =>
    /\ exitCode \in {0, 1}
    /\ exitCode = 1 <=>
         \/ ~dirExists
         \/ images = <<>>
         \/ (encoded.called /\ ~output.exists)

\* C6 as written: the second of two runs on the same source files ends like
\* the first: same exit code, same encoded images, same output file.
C6_AsWritten ==
  (run >= 2 /\ pc = "done") =>
    /\ exitCode = prev.exitCode
    /\ encoded = prev.encoded
    /\ output = prev.output

\* C6 amended: the second run collects the same images and hands the encoder
\* the same arguments as the first, and ends with the same exit code and the
\* same output file whenever its save attempt ends the way the first one did.
C6_RerunSame ==
  (run >= 2 /\ pc = "done") =>
    /\ images = prev.images
    /\ encoded = prev.encoded
    /\ saveResult = prev.saveResult =>
         (exitCode = prev.exitCode /\ output = prev.output)

C6_Witness ==
  /\ run = 2
  /\ pc = "done"
  /\ resDir0
  /\ out0.exists
  /\ prev.exitCode = 0
  /\ exitCode = 0
  /\ output = out0
  /\ Len(Frames(encoded)) >= 2

\* C7: the images handed to the encoder are those collected, ordered by area
\* (width times height) from largest to smallest, so the image save is called
\* on has the largest area of all, the synthesized one included.
C7_SortedByArea ==
  encoded.called =>
    LET fr == Frames(encoded)
    IN /\ Len(fr) = Len(images)
       /\ \A k \in 1..Len(images) : Count(fr, images[k]) = Count(images, images[k])
       /\ \A k \in 1..(Len(fr) - 1) : Area(fr[k]) >= Area(fr[k + 1])
       /\ \A k \in 1..Len(images) : Area(encoded.primary[1]) >= Area(images[k])

C7_Witness ==
  /\ encoded.called
  /\ HasSynth(images)
  /\ Len(images) = 6
  /\ encoded.primary[1] # images[1]
  /\ encoded.primary[1] # images[6]
  /\ \E k \in 1..5 : Area(images[k]) < Area(images[k + 1])
  /\ \E k \in 1..5 : Area(images[k]) > Area(images[k + 1])

\* C8: with icon_256x256.png and icon_32x32.png both present, the synthesized
\* 48x48 image stands directly behind the 32x32 image in images, whichever of
\* the other files are present.
C8_SynthAfter32 ==
  (dirExists /\ icon_256 \in files /\ icon_32 \in files /\ Past48) =>
    \E k \in 1..(Len(images) - 1) :
      /\ images[k].name = icon_32
      /\ IsSynth(images[k + 1])

\* C9: the expected names are handled in the order of png_files and each gives
\* exactly one outcome, an image appended or a warning on standard error; a
\* missing file does not stop the names behind it, so the originals in images
\* keep the order of png_files.
C9_LoopOutcomes ==
  dirExists =>
    LET n == IF pc = "start" THEN 0 ELSE IF pc = "loop" THEN i - 1 ELSE Len(png_files)
        seen == SubSeq(png_files, 1, n)
        originals == SelectSeq(images, IsOriginal)
        warnings == SelectSeq(stderr, IsWarning)
    IN /\ NamesOf(originals) = SelectSeq(seen, IsPresentName)
       /\ TextsOf(warnings) = SelectSeq(seen, IsAbsentName)
       /\ Len(originals) + Len(warnings) = n
       /\ (pc = "loop" \/ pc = "gen48") => opened = NamesOf(originals)

C9_Witness ==
  /\ dirExists
  /\ pc = "done"
  /\ icon_16 \notin files
  /\ icon_32 \in files
  /\ "icon_32x32@2x.png" \notin files
  /\ "icon_128x128.png" \in files
  /\ Len(SelectSeq(stderr, IsWarning)) >= 2
  /\ Len(SelectSeq(images, IsOriginal)) >= 2

\* C10: the resources directory is created and the output file written only
\* once an image has been collected: the exit for zero images leaves the
\* resources directory and the output file as the run found them, and exit 0
\* means that both are there.
C10_OutputOnlyWithImages ==
  /\ (resDir # resDir0 \/ output # out0 \/ encoded.called \/ pc \in {"mkdir", "save", "verify"})
       => images # <<>>
  /\ (pc = "done" /\ images = <<>>) =>
       (exitCode = 1 /\ resDir = resDir0 /\ output = out0)
  /\ exitCode = 0 => (resDir /\ output.exists /\ encoded.called)

C10_Witness ==
  /\ dirExists
  /\ pc = "done"
  /\ images = <<>>
  /\ exitCode = 1
  /\ resDir0
  /\ out0 = OldIco
  /\ output = OldIco

====
